---- MODULE Spec2Model ----
(***************************************************************************)
(* State-machine model of three UI components of the index management      *)
(* dashboards plugin:                                                      *)
(*   - AliasSelect  (array <-> map conversion of the alias value),         *)
(*   - Indices      (the list page: query state, debounced getIndices,     *)
(*                   delete modal),                                        *)
(*   - IndexDetail  (the index form: edits, template simulation on blur,   *)
(*                   confirm dialog, merge / overwrite, import).           *)
(* Each component has its own specification over the shared variables.     *)
(***************************************************************************)
EXTENDS Integers, Sequences, FiniteSets, TLC

VARIABLES
  \* ---- AliasSelect
  aliasValue,     \* props.value: an alias map (a JS object) or undefined
  aliasInput,     \* the label array handed to onChange by RemoteSelect
  aliasShown,     \* the label array rendered as RemoteSelect's value
  \* ---- Indices
  mounted,        \* componentDidMount has run
  state,          \* this.state of the Indices component
  debTimer,       \* _.debounce: the wait timer is pending
  debPending,     \* _.debounce: a call is waiting for the trailing edge
  runs,           \* number of getIndices executions waiting for their response
  dels,           \* number of onDeleteIndexModalConfirm executions waiting
  calls,          \* callers that invoked this.getIndices() in the last step
  toasts,         \* toasts raised in the last step
  \* ---- IndexDetail
  value,                    \* props.value: the form value held by the parent
  hasEdit,                  \* hasEdit.current
  destroyRef,               \* destroyRef.current
  templateSimulateLoading,
  isMatchingTemplate,
  blurValue,                \* finalValue as closed over by onIndexInputBlur
  handlers,                 \* the onIndexInputBlur executions in progress
  onChangeCall,             \* the call of props.onChange made in the last step
  importer,                 \* the onImportSettings execution in progress
  importCalls               \* what onImportSettings called in the last step

aliasVars == <<aliasValue, aliasInput, aliasShown>>
indicesVars ==
  <<mounted, state, debTimer, debPending, runs, dels, calls, toasts>>
detailVars ==
  <<value, hasEdit, destroyRef, templateSimulateLoading, isMatchingTemplate,
    blurValue, handlers, onChangeCall, importer, importCalls>>
vars == <<aliasVars, indicesVars, detailVars>>

Range(s) == {s[i] : i \in 1..Len(s)}
IsDistinct(s) == \A i, j \in 1..Len(s) : i # j => s[i] # s[j]

(***************************************************************************)
(* AliasSelect                                                             *)
(***************************************************************************)
MaxAliasLen == 4
Labels == {"1", "2", "a", "b"}

\* A JS object whose values are all {} is its own-key list in enumeration
\* order; `def' FALSE is the JS value undefined.
Undefined == [def |-> FALSE, keys |-> <<>>]
EmptyObject == [def |-> TRUE, keys |-> <<>>]

\* A key that is a canonical array index ("1", "2") is enumerated before the
\* other string keys, in ascending numeric order.
IsArrayIndex(k) == k \in {"1", "2"}
ToNumber(k) == IF k = "1" THEN 1 ELSE IF k = "2" THEN 2 ELSE 0
Before(x, k) == IsArrayIndex(x) /\ (~IsArrayIndex(k) \/ ToNumber(x) < ToNumber(k))

\* { ...total, [k]: {} }
SpreadWithKey(total, k) ==
  IF k \in Range(total.keys) THEN total
  ELSE IF IsArrayIndex(k)
       THEN [def |-> TRUE,
             keys |-> SelectSeq(total.keys, LAMBDA x : Before(x, k)) \o <<k>>
                      \o SelectSeq(total.keys, LAMBDA x : ~Before(x, k))]
       ELSE [def |-> TRUE, keys |-> Append(total.keys, k)]

\* Object.keys(obj || {})
ObjectKeys(obj) == IF obj.def THEN obj.keys ELSE EmptyObject.keys

transformObjToArray_Reversed(obj) ==
  LET ks == ObjectKeys(obj)
  IN  [i \in 1..Len(ks) |-> [label |-> ks[Len(ks) + 1 - i]]]

transformObjToArray(obj) ==
  LET ks == ObjectKeys(obj)
  IN  [i \in 1..Len(ks) |-> [label |-> ks[i]]]

RECURSIVE Reduce(_, _, _)
Reduce(array, i, total) ==
  IF i > Len(array) THEN total
  ELSE Reduce(array, i + 1, SpreadWithKey(total, array[i].label))

transformArrayToObj(array) == Reduce(array, 1, EmptyObject)

\* value={transformObjToArray(value).map((item) => item.label)}
RenderAlias(v) ==
  LET arr == transformObjToArray(v) IN [i \in 1..Len(arr) |-> arr[i].label]

LabelSeqs == UNION {[1..n -> Labels] : n \in 0..MaxAliasLen}

\* The alias maps a caller can pass: JS objects, so already in JS key order.
IsJsOrdered(s) ==
  /\ IsDistinct(s)
  /\ \A i, j \in 1..Len(s) :
       i < j => /\ (IsArrayIndex(s[j]) => IsArrayIndex(s[i]))
                /\ (IsArrayIndex(s[i]) /\ IsArrayIndex(s[j])
                      => ToNumber(s[i]) < ToNumber(s[j]))
AliasMaps == {[def |-> TRUE, keys |-> s] : s \in {t \in LabelSeqs : IsJsOrdered(t)}}

AliasInit ==
  /\ aliasValue \in AliasMaps \cup {Undefined}
  /\ aliasShown = RenderAlias(aliasValue)
  /\ aliasInput = aliasShown

\* onChange={(val) => onChange(transformArrayToObj(val.map(label => ({label}))))}
\* followed by the re-render with the new value.
AliasOnChange(val) ==
  /\ aliasInput' = val
  /\ aliasValue' = transformArrayToObj([i \in 1..Len(val) |-> [label |-> val[i]]])
  /\ aliasShown' = RenderAlias(aliasValue')
  /\ UNCHANGED <<indicesVars, detailVars>>

AliasNext == \E val \in LabelSeqs : AliasOnChange(val)

(***************************************************************************)
(* Indices                                                                 *)
(***************************************************************************)
MaxRuns == 2       \* getIndices executions that may be in flight together
MaxDeletes == 1    \* indices.delete calls that may be in flight together

Pages == {0, 1}
PageSizes == {10, 20}
Sorts == { [sortField |-> "index", sortDirection |-> "desc"],
           [sortField |-> "index", sortDirection |-> "asc"],
           [sortField |-> "health", sortDirection |-> "asc"] }
Searches == {"", "x"}
IndexNames == {"i1"}

DEFAULT_QUERY_PARAMS ==
  [from |-> 0, size |-> 20, search |-> "", sortField |-> "index", sortDirection |-> "desc"]

\* What the backend may answer to getIndices.
IndicesResponses ==
  { [indices |-> <<>>, totalIndices |-> 0], [indices |-> <<"i1">>, totalIndices |-> 1] }
NoResponse == [indices |-> <<>>, totalIndices |-> 0]
GetIndicesResults ==
  {[kind |-> "ok", response |-> resp] : resp \in IndicesResponses}
    \cup {[kind |-> k, response |-> NoResponse] :
            k \in {"error", "throw"}}
DeleteResults ==
  {[kind |-> k, response |-> NoResponse] :
     k \in {"ok", "notok", "reject"}}

getQueryObjectFromState_WithLoading(s) ==
  [from |-> s.from, size |-> s.size, search |-> s.search, sortField |-> s.sortField,
   sortDirection |-> s.sortDirection, showDataStreams |-> s.showDataStreams,
   loadingIndices |-> s.loadingIndices]

getQueryObjectFromState(s) ==
  [from |-> s.from, size |-> s.size, search |-> s.search, sortField |-> s.sortField,
   sortDirection |-> s.sortDirection, showDataStreams |-> s.showDataStreams]

\* componentDidUpdate's test: !_.isEqual(prevQuery, currQuery)
DidUpdate(prev, cur) == getQueryObjectFromState(prev) # getQueryObjectFromState(cur)

IndicesInit ==
  /\ mounted = FALSE
  /\ \E sds \in BOOLEAN :
       state = [totalIndices |-> 0,
                from |-> DEFAULT_QUERY_PARAMS.from,
                size |-> DEFAULT_QUERY_PARAMS.size,
                search |-> DEFAULT_QUERY_PARAMS.search,
                query |-> DEFAULT_QUERY_PARAMS.search,
                sortField |-> DEFAULT_QUERY_PARAMS.sortField,
                sortDirection |-> DEFAULT_QUERY_PARAMS.sortDirection,
                selectedItems |-> {},
                indices |-> <<>>,
                loadingIndices |-> TRUE,
                showDataStreams |-> sds,
                isDataStreamColumnVisible |-> sds,
                deleteIndexModalVisible |-> FALSE]
  /\ debTimer = FALSE
  /\ debPending = FALSE
  /\ runs = 0
  /\ dels = 0
  /\ calls = {}
  /\ toasts = {}

\* The first half of getIndices, up to the await: setState({loadingIndices: true}),
\* then the request leaves.  `st' is the state it starts from, `n' the number of
\* executions already waiting.
GetIndicesStart(st, n) ==
  /\ n < MaxRuns
  /\ runs' = n + 1
  /\ state' = [st EXCEPT !.loadingIndices = TRUE]

\* this.getIndices(), the debounced wrapper: _.debounce(fn, 500, {leading: true}).
\* With no timer pending the call runs at once (leading edge) and starts the timer;
\* otherwise it is kept for the trailing edge.  componentDidUpdate runs after the
\* setState of getIndices too: `retrigger' is its call, made while the timer runs.
DebouncedGetIndices(st, n, caller) ==
  IF ~debTimer
  THEN LET retrigger == DidUpdate(st, [st EXCEPT !.loadingIndices = TRUE])
       IN  /\ GetIndicesStart(st, n)
           /\ debTimer' = TRUE
           /\ debPending' = retrigger
           /\ calls' = {caller} \cup (IF retrigger THEN {"componentDidUpdate"} ELSE {})
  ELSE /\ state' = st
       /\ runs' = n
       /\ debPending' = TRUE
       /\ calls' = {caller}
       /\ UNCHANGED debTimer

\* setState by a handler that leaves the state `st', then
\* componentDidUpdate(prevProps, prevState).
componentDidUpdate(st, n) ==
  IF DidUpdate(state, st)
  THEN DebouncedGetIndices(st, n, "componentDidUpdate")
  ELSE /\ state' = st
       /\ runs' = n
       /\ calls' = {}
       /\ UNCHANGED <<debTimer, debPending>>

componentDidMount ==
  /\ ~mounted
  /\ mounted' = TRUE
  /\ DebouncedGetIndices(state, runs, "componentDidMount")
  /\ toasts' = {}
  /\ UNCHANGED <<dels, aliasVars, detailVars>>

\* The wait has elapsed since the last call: the trailing edge of the debounce
\* invokes getIndices when a call was kept.
DebounceTimerExpired ==
  /\ debTimer
  /\ debTimer' = FALSE
  /\ IF debPending
     THEN LET retrigger == DidUpdate(state, [state EXCEPT !.loadingIndices = TRUE])
          IN  /\ GetIndicesStart(state, runs)
              /\ debPending' = FALSE
              /\ calls' = IF retrigger THEN {"componentDidUpdate"} ELSE {}
     ELSE /\ calls' = {}
          /\ UNCHANGED <<state, runs, debPending>>
  /\ toasts' = {}
  /\ UNCHANGED <<mounted, dels, aliasVars, detailVars>>

GetIndicesFinish_KeepLoading(st) ==
  [st EXCEPT !.isDataStreamColumnVisible = st.showDataStreams]

\* this.setState({ loadingIndices: false, isDataStreamColumnVisible: showDataStreams })
GetIndicesFinish(st) ==
  [st EXCEPT !.loadingIndices = FALSE, !.isDataStreamColumnVisible = st.showDataStreams]

GetIndicesApply_OnError(st, res) ==
  [st EXCEPT !.indices = res.response.indices,
             !.totalIndices = res.response.totalIndices]

\* if (getIndicesResponse.ok) this.setState({ indices, totalIndices })
GetIndicesApply(st, res) ==
  IF res.kind = "ok"
  THEN [st EXCEPT !.indices = res.response.indices,
                  !.totalIndices = res.response.totalIndices]
  ELSE st

\* else addDanger(getIndicesResponse.error); catch (err) { addDanger(...) }
GetIndicesToast(res) ==
  IF res.kind = "ok" THEN {} ELSE {[color |-> "danger", by |-> "getIndices"]}

\* indexService.getIndices(...) settles with `res' and the second half of
\* getIndices, after the await, runs.
GetIndicesReturn(res) ==
  /\ runs > 0
  /\ toasts' = GetIndicesToast(res)
  /\ componentDidUpdate(GetIndicesFinish(GetIndicesApply(state, res)), runs - 1)
  /\ UNCHANGED <<mounted, dels, aliasVars, detailVars>>

toggleShowDataStreams_AndColumn(st) ==
  [st EXCEPT !.showDataStreams = ~st.showDataStreams,
             !.isDataStreamColumnVisible = ~st.showDataStreams]

\* this.setState({ showDataStreams: !showDataStreams })
toggleShowDataStreams(st) == [st EXCEPT !.showDataStreams = ~st.showDataStreams]

ToggleShowDataStreams ==
  /\ mounted
  /\ componentDidUpdate(toggleShowDataStreams(state), runs)
  /\ toasts' = {}
  /\ UNCHANGED <<mounted, dels, aliasVars, detailVars>>

\* this.setState({ from: page * size, size, sortField, sortDirection })
onTableChange(page, size, sort) ==
  /\ mounted
  /\ componentDidUpdate([state EXCEPT !.from = page * size, !.size = size,
                                      !.sortField = sort.sortField,
                                      !.sortDirection = sort.sortDirection], runs)
  /\ toasts' = {}
  /\ UNCHANGED <<mounted, dels, aliasVars, detailVars>>

\* The table offers the rows it shows for selection.
onSelectionChange(selectedItems) ==
  /\ mounted
  /\ selectedItems \subseteq Range(state.indices)
  /\ componentDidUpdate([state EXCEPT !.selectedItems = selectedItems], runs)
  /\ toasts' = {}
  /\ UNCHANGED <<mounted, dels, aliasVars, detailVars>>

\* if (error) return; this.setState({ from: 0, search: queryText, query })
onSearchChange(queryText, error) ==
  /\ mounted
  /\ ~error
  /\ componentDidUpdate([state EXCEPT !.from = 0, !.search = queryText,
                                      !.query = queryText], runs)
  /\ toasts' = {}
  /\ UNCHANGED <<mounted, dels, aliasVars, detailVars>>

\* Offered by the empty prompt of the table.
resetFilters ==
  /\ mounted
  /\ state.indices = <<>>
  /\ componentDidUpdate([state EXCEPT !.search = DEFAULT_QUERY_PARAMS.search,
                                      !.query = DEFAULT_QUERY_PARAMS.search], runs)
  /\ toasts' = {}
  /\ UNCHANGED <<mounted, dels, aliasVars, detailVars>>

\* onRefresh={this.getIndices}
onRefresh ==
  /\ mounted
  /\ DebouncedGetIndices(state, runs, "onRefresh")
  /\ toasts' = {}
  /\ UNCHANGED <<mounted, dels, aliasVars, detailVars>>

\* disabled: !this.state.selectedItems.length
DeleteDisabled(st) == st.selectedItems = {}

\* The "Delete" item of the Actions menu:
\* onClick: () => this.setState({ deleteIndexModalVisible: true })
DeleteAction ==
  /\ mounted
  /\ ~DeleteDisabled(state)
  /\ componentDidUpdate([state EXCEPT !.deleteIndexModalVisible = TRUE], runs)
  /\ toasts' = {}
  /\ UNCHANGED <<mounted, dels, aliasVars, detailVars>>

\* this.setState({ deleteIndexModalVisible: false })
onDeleteIndexModalClose(st) == [st EXCEPT !.deleteIndexModalVisible = FALSE]

\* The modal's onClose.
DeleteModalClose ==
  /\ state.deleteIndexModalVisible
  /\ componentDidUpdate(onDeleteIndexModalClose(state), runs)
  /\ toasts' = {}
  /\ UNCHANGED <<mounted, dels, aliasVars, detailVars>>

\* onDeleteIndexModalConfirm up to the await: the indices.delete call leaves.
DeleteConfirm ==
  /\ state.deleteIndexModalVisible
  /\ dels < MaxDeletes
  /\ dels' = dels + 1
  /\ calls' = {}
  /\ toasts' = {}
  /\ UNCHANGED <<mounted, state, debTimer, debPending, runs, aliasVars, detailVars>>

DeleteOk_Always(res) == res.kind # "reject"

\* if (result && result.ok)
DeleteOk(res) == res.kind = "ok"

\* commonService.apiCaller(...) settles with `res' and onDeleteIndexModalConfirm
\* continues after the await.  A rejected call leaves the handler by its exception.
DeleteReturn(res) ==
  /\ dels > 0
  /\ dels' = dels - 1
  /\ IF DeleteOk(res)
     THEN /\ toasts' = {[color |-> "success", by |-> "onDeleteIndexModalConfirm"]}
          /\ DebouncedGetIndices(onDeleteIndexModalClose(state), runs,
                                 "onDeleteIndexModalConfirm")
     ELSE /\ toasts' = IF res.kind = "notok"
                      THEN {[color |-> "danger", by |-> "onDeleteIndexModalConfirm"]}
                      ELSE {}
          /\ calls' = {}
          /\ UNCHANGED <<state, runs, debTimer, debPending>>
  /\ UNCHANGED <<mounted, aliasVars, detailVars>>

IndicesNext ==
  \/ componentDidMount
  \/ DebounceTimerExpired
  \/ \E res \in GetIndicesResults : GetIndicesReturn(res)
  \/ ToggleShowDataStreams
  \/ \E page \in Pages, size \in PageSizes, sort \in Sorts :
       onTableChange(page, size, sort)
  \/ \E items \in SUBSET IndexNames : onSelectionChange(items)
  \/ \E q \in Searches, error \in BOOLEAN : onSearchChange(q, error)
  \/ resetFilters
  \/ onRefresh
  \/ DeleteAction
  \/ DeleteModalClose
  \/ DeleteConfirm
  \/ \E res \in DeleteResults : DeleteReturn(res)

(***************************************************************************)
(* IndexDetail                                                             *)
(***************************************************************************)
HandlerIds == {1, 2}
Names == {"a"}

\* JSON objects are functions from their keys; {} is the empty function.
EmptyJson == <<>>
Has(obj, k) == k \in DOMAIN obj
Get(obj, k, default) == IF k \in DOMAIN obj THEN obj[k] ELSE default
\* { ...a, ...b }
Spread(a, b) == [x \in DOMAIN a \cup DOMAIN b |-> IF x \in DOMAIN b THEN b[x] ELSE a[x]]
\* { ...obj, [k]: v }
With(obj, k, v) == [x \in DOMAIN obj \cup {k} |-> IF x = k THEN v ELSE obj[x]]

defaultIndexSettings ==
  [index |-> "",
   settings |-> ("index.number_of_shards" :> 1 @@ "index.number_of_replicas" :> 1
                   @@ "index.refresh_interval" :> "1s"),
   mappings |-> EmptyJson]

FieldOrder == <<"f">>

\* IndexMapping's converters between the map the backend uses for
\* mappings.properties and the array the form edits.
transformObjectToArray(obj) ==
  LET names == SelectSeq(FieldOrder, LAMBDA n : n \in DOMAIN obj)
  IN  [i \in 1..Len(names) |-> With(obj[names[i]], "fieldName", names[i])]

RECURSIVE ArrayToObject(_, _, _)
ArrayToObject(array, i, total) ==
  IF i > Len(array) THEN total
  ELSE ArrayToObject(array, i + 1,
         With(total, array[i].fieldName,
              [k \in DOMAIN array[i] \ {"fieldName"} |-> array[i][k]]))

transformArrayToObject(array) == ArrayToObject(array, 1, EmptyJson)

\* The keys whose values are plain objects; every other key holds a scalar.
ObjectValued == {"settings", "mappings", "properties"} \cup Range(FieldOrder)

\* lodash merge(object, source): own keys of source are assigned into object,
\* plain objects recursively.
RECURSIVE merge(_, _)
merge(object, source) ==
  [k \in DOMAIN object \cup DOMAIN source |->
     IF ~Has(source, k) THEN object[k]
     ELSE IF k \in ObjectValued
          THEN merge(Get(object, k, EmptyJson), source[k])
          ELSE source[k]]

\* What a simulation of the index templates for `name' may answer.
TemplateResponses(name) ==
  { [index |-> name,
     settings |-> ("index.number_of_shards" :> 3 @@ "index.codec" :> "best"),
     mappings |-> [dynamic |-> "strict", properties |-> [f |-> [type |-> "text"]]]] }
NoTemplate == [index |-> ""]
SimulateResults(name) ==
  {[ok |-> TRUE, response |-> r] : r \in TemplateResponses(name)}
    \cup {[ok |-> FALSE, response |-> NoTemplate]}

\* A reference to a form value object: `v' is what the object holds now, `cur'
\* says it is the object the value prop refers to, `ss' that its settings object
\* is the one the value prop's settings refer to.
Ref(v, cur, ss) == [v |-> v, cur |-> cur, ss |-> ss]
NoRef == Ref(defaultIndexSettings, FALSE, FALSE)

IdleHandler == [pc |-> "idle", finalValue |-> NoRef, req |-> "", result |-> NoTemplate]

NoCall == [by |-> "none"]

IdleImporter == [pc |-> "idle", index |-> ""]

\* A step of the component that is not a step of onImportSettings.
NoImportStep == importCalls' = {} /\ UNCHANGED importer

DetailInit ==
  /\ value = defaultIndexSettings
  /\ hasEdit = FALSE
  /\ destroyRef = FALSE
  /\ templateSimulateLoading = FALSE
  /\ isMatchingTemplate = FALSE
  /\ blurValue = Ref(defaultIndexSettings, TRUE, TRUE)
  /\ handlers = [h \in HandlerIds |-> IdleHandler]
  /\ onChangeCall = NoCall
  /\ importer = IdleImporter
  /\ importCalls = {}

DialogOpen ==
  \/ \E h \in HandlerIds : handlers[h].pc = "dialog"
  \/ importer.pc = "dialog"
FreeHandler(h) ==
  handlers[h].pc = "idle" /\ \A q \in HandlerIds : q < h => handlers[q].pc # "idle"

\* set(finalValue, name, val) as seen through a reference `ref': it writes into the
\* object of the value prop, or into its settings object.
SetThrough(ref, e) ==
  IF Len(e.name) = 1
  THEN IF ref.cur
       THEN Ref(With(ref.v, e.name[1], e.val), FALSE, TRUE)
       ELSE Ref(ref.v, FALSE, IF e.name = <<"settings">> THEN FALSE ELSE ref.ss)
  ELSE IF Has(value, "settings")
       THEN IF ref.ss
            THEN Ref(With(ref.v, "settings", With(ref.v.settings, e.name[2], e.val)),
                     FALSE, TRUE)
            ELSE Ref(ref.v, FALSE, FALSE)
       ELSE IF ref.cur
            THEN Ref(With(ref.v, "settings", With(EmptyJson, e.name[2], e.val)),
                     FALSE, TRUE)
            ELSE Ref(ref.v, FALSE, FALSE)

\* set(finalValue, name, val) on the object of the value prop.
SetValue(v, e) ==
  IF Len(e.name) = 1
  THEN With(v, e.name[1], e.val)
  ELSE With(v, "settings", With(Get(v, "settings", EmptyJson), e.name[2], e.val))

\* useCallback(..., [finalValue.index, onSimulateIndexTemplate]): the render after
\* the value changed keeps the callback unless the index name changed.
Recapture(old, new, ref) ==
  IF Get(new, "index", "") # Get(old, "index", "") THEN Ref(new, TRUE, TRUE) ELSE ref

\* A new object becomes the value prop, with nested objects of its own.
Detach(ref) == Ref(ref.v, FALSE, FALSE)

\* if (name !== "index") hasEdit.current = true
onValueChange_hasEdit(e) == IF e.name # <<"index">> THEN TRUE ELSE hasEdit

\* onValueChange(name, val): set(finalValue, name, val); onChange({...finalValue}).
\* `name' is the path as a sequence of keys.
onValueChange(name, val) ==
  LET e == [name |-> name, val |-> val] IN
  /\ ~destroyRef
  /\ ~DialogOpen
  /\ value' = SetValue(value, e)
  /\ onChangeCall' = [by |-> "onValueChange", value |-> value']
  /\ hasEdit' = onValueChange_hasEdit(e)
  /\ handlers' = [h \in HandlerIds |->
                    [handlers[h] EXCEPT !.finalValue = SetThrough(@, e)]]
  /\ blurValue' = Recapture(value, value', SetThrough(blurValue, e))
  /\ UNCHANGED <<destroyRef, templateSimulateLoading, isMatchingTemplate>>
  /\ NoImportStep
  /\ UNCHANGED <<aliasVars, indicesVars>>

\* onBlur of the index name input: onIndexInputBlur up to its 200 ms timer.
onIndexInputBlur ==
  /\ ~destroyRef
  /\ ~DialogOpen
  /\ \E h \in HandlerIds :
       /\ FreeHandler(h)
       /\ handlers' = [handlers EXCEPT ![h] =
                         [pc |-> "delay", finalValue |-> blurValue, req |-> "",
                          result |-> NoTemplate]]
  /\ onChangeCall' = NoCall
  /\ UNCHANGED <<value, hasEdit, destroyRef, templateSimulateLoading,
                 isMatchingTemplate, blurValue>>
  /\ NoImportStep
  /\ UNCHANGED <<aliasVars, indicesVars>>

\* The timer fired: if (destroyRef.current) return;
\* if (finalValue.index && onSimulateIndexTemplate) { setTemplateSimulateLoading(true);
\* ... await onSimulateIndexTemplate(finalValue.index)
BlurTimerFired(h) ==
  /\ handlers[h].pc = "delay"
  /\ LET name == Get(handlers[h].finalValue.v, "index", "")
     IN  IF ~destroyRef /\ name # ""
         THEN /\ templateSimulateLoading' = TRUE
              /\ handlers' = [handlers EXCEPT ![h].pc = "awaiting", ![h].req = name]
         ELSE /\ handlers' = [handlers EXCEPT ![h] = IdleHandler]
              /\ UNCHANGED templateSimulateLoading
  /\ onChangeCall' = NoCall
  /\ UNCHANGED <<value, hasEdit, destroyRef, isMatchingTemplate, blurValue>>
  /\ NoImportStep
  /\ UNCHANGED <<aliasVars, indicesVars>>

\* onChange({ ...data, mappings: { properties:
\*   transformObjectToArray(data?.mappings?.properties || {}) } })
TemplateValue(data) ==
  With(data, "mappings",
       [properties |->
          transformObjectToArray(Get(Get(data, "mappings", EmptyJson),
                                     "properties", EmptyJson))])

\* The .then of onChangePromise: onChange(...); hasEdit.current = false;
\* setIsMatchingTemplate(true).  `hs' are the executions left in progress.
ApplyTemplate(data, hs) ==
  /\ value' = TemplateValue(data)
  /\ onChangeCall' = [by |-> "onIndexInputBlur", value |-> value']
  /\ hasEdit' = FALSE
  /\ isMatchingTemplate' = TRUE
  /\ handlers' = [h \in HandlerIds |-> [hs[h] EXCEPT !.finalValue = Detach(@)]]
  /\ blurValue' = Recapture(value, value', Detach(blurValue))

NeedsConfirm_Never == FALSE

\* if (hasEdit.current) Modal.show({...}) else Promise.resolve(result.response)
NeedsConfirm == hasEdit

SimulateNotOk_KeepMatching(h) ==
  /\ handlers' = [handlers EXCEPT ![h] = IdleHandler]
  /\ onChangeCall' = NoCall
  /\ UNCHANGED <<value, hasEdit, blurValue, isMatchingTemplate>>

\* } else { setIsMatchingTemplate(false); }
SimulateNotOk(h) ==
  /\ isMatchingTemplate' = FALSE
  /\ handlers' = [handlers EXCEPT ![h] = IdleHandler]
  /\ onChangeCall' = NoCall
  /\ UNCHANGED <<value, hasEdit, blurValue>>

\* onSimulateIndexTemplate settles with `res' and onIndexInputBlur continues.
SimulateReturn(h, res) ==
  /\ handlers[h].pc = "awaiting"
  /\ res \in SimulateResults(handlers[h].req)
  /\ IF destroyRef
     THEN /\ handlers' = [handlers EXCEPT ![h] = IdleHandler]
          /\ onChangeCall' = NoCall
          /\ UNCHANGED <<value, hasEdit, templateSimulateLoading, isMatchingTemplate,
                         blurValue>>
     ELSE /\ templateSimulateLoading' = FALSE
          /\ IF res.ok
             THEN IF NeedsConfirm
                  THEN /\ handlers' = [handlers EXCEPT ![h].pc = "dialog",
                                                       ![h].result = res.response]
                       /\ onChangeCall' = NoCall
                       /\ UNCHANGED <<value, hasEdit, isMatchingTemplate, blurValue>>
                  ELSE ApplyTemplate(res.response, [handlers EXCEPT ![h] = IdleHandler])
             ELSE SimulateNotOk(h)
  /\ UNCHANGED destroyRef
  /\ NoImportStep
  /\ UNCHANGED <<aliasVars, indicesVars>>

\* "Overwrite": onOk: () => resolve(result.response)
DialogOverwrite(h) ==
  /\ handlers[h].pc = "dialog"
  /\ ApplyTemplate(handlers[h].result, [handlers EXCEPT ![h] = IdleHandler])
  /\ UNCHANGED <<destroyRef, templateSimulateLoading>>
  /\ NoImportStep
  /\ UNCHANGED <<aliasVars, indicesVars>>

\* onCancel: formatValue = { index: "", ...finalValue, mappings: { properties:
\*   transformArrayToObject(finalValue.mappings?.properties || []) } };
\* mergedValue = { index: finalValue.index || "" };
\* merge(mergedValue, result.response, formatValue)
MergedValue(finalValue, response) ==
  LET formatValue ==
        With(Spread([index |-> ""], finalValue), "mappings",
             [properties |->
                transformArrayToObject(Get(Get(finalValue, "mappings", EmptyJson),
                                           "properties", <<>>))])
      mergedValue == [index |-> Get(finalValue, "index", "")]
  IN  merge(merge(mergedValue, response), formatValue)

\* "Merge your changes with template"
DialogMerge(h) ==
  /\ handlers[h].pc = "dialog"
  /\ ApplyTemplate(MergedValue(handlers[h].finalValue.v, handlers[h].result),
                   [handlers EXCEPT ![h] = IdleHandler])
  /\ UNCHANGED <<destroyRef, templateSimulateLoading>>
  /\ NoImportStep
  /\ UNCHANGED <<aliasVars, indicesVars>>

\* The effect cleanup on unmount: destroyRef.current = true
Unmount ==
  /\ ~destroyRef
  /\ destroyRef' = TRUE
  /\ onChangeCall' = NoCall
  /\ UNCHANGED <<value, hasEdit, templateSimulateLoading, isMatchingTemplate,
                 blurValue, handlers>>
  /\ NoImportStep
  /\ UNCHANGED <<aliasVars, indicesVars>>

\* The indices offered by "Import settings and mappings" (props.sourceIndices).
SourceIndices == {"src"}

\* The settings an import keeps.
INDEX_IMPORT_SETTINGS ==
  {"index.number_of_shards", "index.number_of_replicas", "index.refresh_interval"}

\* What onGetIndexDetail(index) may resolve with.
IndexDetails(index) ==
  { [index |-> index,
     aliases |-> [al |-> EmptyJson],
     settings |-> ("index.number_of_shards" :> 5 @@ "index.uuid" :> "u"),
     mappings |-> [properties |-> [f |-> [type |-> "keyword"]]]] }
NoDetail == [index |-> ""]
GetIndexDetailResults(index) ==
  {[kind |-> "resolve", response |-> r] : r \in IndexDetails(index)}
    \cup {[kind |-> "reject", response |-> NoDetail]}

\* omit(object, paths)
omit(object, paths) == [k \in DOMAIN object \ paths |-> object[k]]
\* pick(object, paths)
pick(object, paths) == [k \in DOMAIN object \cap paths |-> object[k]]

\* onChange({ ...omit(indexDetail, ["aliases", "data_stream"]),
\*   mappings: { properties: transformObjectToArray(indexDetail?.mappings?.properties || {}) },
\*   settings: pick(indexDetail?.settings || {}, INDEX_IMPORT_SETTINGS) })
ImportedValue(indexDetail) ==
  Spread(omit(indexDetail, {"aliases", "data_stream"}),
         [mappings |->
            [properties |->
               transformObjectToArray(Get(Get(indexDetail, "mappings", EmptyJson),
                                          "properties", EmptyJson))],
          settings |-> pick(Get(indexDetail, "settings", EmptyJson),
                            INDEX_IMPORT_SETTINGS)])

\* The frame of a step of onImportSettings that does not reach its onChange.
ImportLeavesForm ==
  /\ onChangeCall' = NoCall
  /\ UNCHANGED <<value, hasEdit, destroyRef, templateSimulateLoading,
                 isMatchingTemplate, blurValue, handlers>>
  /\ UNCHANGED <<aliasVars, indicesVars>>

\* onGetIndexDetail(index).then(resolve): the request leaves.
CallGetIndexDetail(index) ==
  /\ importer' = [pc |-> "awaiting", index |-> index]
  /\ importCalls' = {"onGetIndexDetail"}

\* onClick: () => onImportSettings({ index: sourceIndex }), up to the dialog or
\* the request: if (hasEdit.current) Modal.show({...}) else onGetIndexDetail(index)
onImportSettings(index) ==
  /\ ~destroyRef
  /\ ~DialogOpen
  /\ importer.pc \in {"idle", "declined"}
  /\ IF hasEdit
     THEN /\ importer' = [pc |-> "dialog", index |-> index]
          /\ importCalls' = {}
     ELSE CallGetIndexDetail(index)
  /\ ImportLeavesForm

\* "Overwrite": onOk: async () => onGetIndexDetail(index).then(resolve)
ImportOverwrite ==
  /\ importer.pc = "dialog"
  /\ CallGetIndexDetail(importer.index)
  /\ ImportLeavesForm

ImportDecline_Imports ==
  /\ importer.pc = "dialog"
  /\ CallGetIndexDetail(importer.index)
  /\ ImportLeavesForm

\* "do not import": Modal.show is given no onCancel, the dialog closes and the
\* promise awaited by onImportSettings is never resolved.
ImportDecline ==
  /\ importer.pc = "dialog"
  /\ importer' = [pc |-> "declined", index |-> importer.index]
  /\ importCalls' = {}
  /\ ImportLeavesForm

\* onGetIndexDetail settles.  Resolved, onImportSettings continues after its
\* await: onChange(...); SimpleEuiToast.addSuccess(...); hasEdit.current = false.
\* Rejected, resolve is never called and the execution stays at its await.
GetIndexDetailReturn(res) ==
  /\ importer.pc = "awaiting"
  /\ res \in GetIndexDetailResults(importer.index)
  /\ importer' = IdleImporter
  /\ IF res.kind = "resolve"
     THEN /\ value' = ImportedValue(res.response)
          /\ onChangeCall' = [by |-> "onImportSettings", value |-> value']
          /\ importCalls' = {"addSuccess"}
          /\ hasEdit' = FALSE
          /\ handlers' = [h \in HandlerIds |->
                            [handlers[h] EXCEPT !.finalValue = Detach(@)]]
          /\ blurValue' = Recapture(value, value', Detach(blurValue))
     ELSE /\ onChangeCall' = NoCall
          /\ importCalls' = {}
          /\ UNCHANGED <<value, hasEdit, handlers, blurValue>>
  /\ UNCHANGED <<destroyRef, templateSimulateLoading, isMatchingTemplate>>
  /\ UNCHANGED <<aliasVars, indicesVars>>

DetailNext ==
  \/ \E n \in Names \cup {""} : onValueChange(<<"index">>, n)
  \/ onValueChange(<<"settings", "index.number_of_shards">>, 2)
  \/ onValueChange(<<"settings">>, "index.number_of_shards" :> 2)
  \/ onIndexInputBlur
  \/ \E h \in HandlerIds : BlurTimerFired(h)
  \/ \E h \in HandlerIds : \E res \in SimulateResults(handlers[h].req) : SimulateReturn(h, res)
  \/ \E h \in HandlerIds : DialogOverwrite(h)
  \/ \E h \in HandlerIds : DialogMerge(h)
  \/ Unmount

\* The form with its import menu; one onIndexInputBlur execution at a time.
ImportNext ==
  \/ \E n \in Names \cup {""} : onValueChange(<<"index">>, n)
  \/ onValueChange(<<"settings", "index.number_of_shards">>, 2)
  \/ onValueChange(<<"settings">>, "index.number_of_shards" :> 2)
  \/ (\A h \in HandlerIds : handlers[h].pc = "idle") /\ onIndexInputBlur
  \/ \E h \in HandlerIds : BlurTimerFired(h)
  \/ \E h \in HandlerIds : \E res \in SimulateResults(handlers[h].req) : SimulateReturn(h, res)
  \/ \E h \in HandlerIds : DialogOverwrite(h)
  \/ \E h \in HandlerIds : DialogMerge(h)
  \/ Unmount
  \/ \E index \in SourceIndices : onImportSettings(index)
  \/ ImportOverwrite
  \/ ImportDecline
  \/ \E res \in GetIndexDetailResults(importer.index) : GetIndexDetailReturn(res)

(***************************************************************************)
(* Specifications: one per component, the other components at rest.        *)
(***************************************************************************)
AliasRest ==
  /\ aliasValue = Undefined
  /\ aliasInput = <<>>
  /\ aliasShown = <<>>

InitAlias == AliasInit /\ IndicesInit /\ DetailInit /\ ~state.showDataStreams
InitIndices == AliasRest /\ IndicesInit /\ DetailInit
InitDetail == AliasRest /\ IndicesInit /\ DetailInit /\ ~state.showDataStreams

SpecAlias == InitAlias /\ [][AliasNext]_vars
SpecIndices == InitIndices /\ [][IndicesNext]_vars
SpecDetail == InitDetail /\ [][DetailNext]_vars
SpecImport == InitDetail /\ [][ImportNext]_vars

\* A request that left is answered: the awaited getIndices promise settles.
FairSpecIndices ==
  SpecIndices /\ WF_vars(\E res \in GetIndicesResults : GetIndicesReturn(res))

(***************************************************************************)
(* Claims                                                                  *)
(***************************************************************************)

\* The array a JS engine yields for an object built from the distinct labels
\* `a': the array-index labels in ascending order, then the others as given.
JsKeyOrder(a) ==
  SelectSeq(<<"1", "2">>, LAMBDA k : k \in Range(a))
    \o SelectSeq(a, LAMBDA k : ~IsArrayIndex(k))

\* C4 as stated: map -> array -> map gives the map back; for distinct labels
\* array -> map -> array gives the same labels in the same order; an undefined
\* value shows the empty list.
C4_RoundTripSameOrder ==
  /\ aliasValue.def =>
       transformArrayToObj(transformObjToArray(aliasValue)) = aliasValue
  /\ IsDistinct(aliasInput) => aliasShown = aliasInput
  /\ ~aliasValue.def => aliasShown = <<>>

\* C4 amended: map -> array -> map gives the map back; for distinct labels
\* array -> map -> array gives the same labels, the integer-like ones first in
\* ascending order and the others in the order given, so the same order when no
\* label is integer-like; an undefined value shows the empty list.
C4_RoundTrip ==
  /\ aliasValue.def =>
       transformArrayToObj(transformObjToArray(aliasValue)) = aliasValue
  /\ IsDistinct(aliasInput) =>
       /\ Range(aliasShown) = Range(aliasInput)
       /\ aliasShown = JsKeyOrder(aliasInput)
       /\ (\A i \in 1..Len(aliasInput) : ~IsArrayIndex(aliasInput[i]))
            => aliasShown = aliasInput
  /\ ~aliasValue.def => aliasShown = <<>>

\* onChange was given distinct labels, some integer-like, and the list came back
\* reordered.
C4_Witness ==
  /\ aliasInput = <<"b", "2", "a", "1">>
  /\ aliasShown = <<"1", "2", "b", "a">>

QueryFieldsChanged ==
  \/ state'.from # state.from
  \/ state'.size # state.size
  \/ state'.search # state.search
  \/ state'.sortField # state.sortField
  \/ state'.sortDirection # state.sortDirection
  \/ state'.showDataStreams # state.showDataStreams

\* C5: when getIndices receives an ok response, indices and totalIndices become
\* the response's values; when the response is not ok or the call throws they
\* are left unchanged and a danger toast is raised.
C5_ResponseRepopulatesState ==
  [][\A res \in GetIndicesResults :
       GetIndicesReturn(res) =>
         IF res.kind = "ok"
         THEN /\ state'.indices = res.response.indices
              /\ state'.totalIndices = res.response.totalIndices
         ELSE /\ state'.indices = state.indices
              /\ state'.totalIndices = state.totalIndices
              /\ [color |-> "danger", by |-> "getIndices"] \in toasts']_vars

\* An ok response has replaced the list.
C5_Witness ==
  /\ state.indices = <<"i1">>
  /\ state.totalIndices = 1
  /\ ~state.loadingIndices

\* C6: a getIndices execution sets loadingIndices to true when it starts, sets
\* it to false when it ends, whatever the outcome of the request, and an
\* execution that started does end.
C6_LoadingFlag ==
  /\ [][/\ runs' > runs => state'.loadingIndices
        /\ \A res \in GetIndicesResults :
             GetIndicesReturn(res) => ~state'.loadingIndices]_vars
  /\ (runs > 0) ~> (~state.loadingIndices)

\* An execution has started and ended.
C6_Witness == mounted /\ runs = 0 /\ ~state.loadingIndices

\* C7: a step makes componentDidUpdate call getIndices if and only if it changes
\* one of from, size, search, sortField, sortDirection, showDataStreams.
C7_FetchIffQueryChanged ==
  [][("componentDidUpdate" \in calls') <=> QueryFieldsChanged]_vars

\* componentDidUpdate has called getIndices, and a step that changed
\* loadingIndices alone has not.
C7_Witness == calls = {"componentDidUpdate"} /\ state.search = "x"

\* C8: toggleShowDataStreams changes showDataStreams and leaves
\* isDataStreamColumnVisible alone; isDataStreamColumnVisible changes only at
\* the end of a getIndices execution, which sets it to showDataStreams.
C8_ColumnFollowsResults ==
  [][/\ ToggleShowDataStreams =>
          /\ state'.showDataStreams # state.showDataStreams
          /\ state'.isDataStreamColumnVisible = state.isDataStreamColumnVisible
     /\ state'.isDataStreamColumnVisible # state.isDataStreamColumnVisible =>
          \E res \in GetIndicesResults : GetIndicesReturn(res)
     /\ \A res \in GetIndicesResults :
          GetIndicesReturn(res) =>
            /\ state'.isDataStreamColumnVisible = state.showDataStreams
            /\ state'.showDataStreams = state.showDataStreams]_vars

\* The toggle has acted and the column has not followed yet.
C8_Witness ==
  /\ state.showDataStreams # state.isDataStreamColumnVisible
  /\ runs > 0

\* C9: the confirm handler closes the modal and calls getIndices exactly when
\* indices.delete returned ok; when it returned not ok the modal is left as it
\* is, getIndices is not called and a danger toast is raised.  The modal opens
\* only by the Delete action, and only with a non-empty selection.
C9_DeleteConfirm ==
  [][/\ \A res \in DeleteResults :
          DeleteReturn(res) =>
            IF res.kind = "ok"
            THEN /\ ~state'.deleteIndexModalVisible
                 /\ "onDeleteIndexModalConfirm" \in calls'
            ELSE /\ state'.deleteIndexModalVisible = state.deleteIndexModalVisible
                 /\ calls' = {}
                 /\ res.kind = "notok" =>
                      [color |-> "danger", by |-> "onDeleteIndexModalConfirm"] \in toasts'
     /\ "onDeleteIndexModalConfirm" \in calls' =>
          \E res \in DeleteResults : res.kind = "ok" /\ DeleteReturn(res)
     /\ (~state.deleteIndexModalVisible /\ state'.deleteIndexModalVisible) =>
          DeleteAction /\ state.selectedItems # {}]_vars

\* A not ok answer arrived while the modal was open: it is still open, with a
\* danger toast and no refresh.
C9_Witness ==
  /\ state.deleteIndexModalVisible
  /\ toasts = {[color |-> "danger", by |-> "onDeleteIndexModalConfirm"]}
  /\ calls = {}

\* C1: an ok simulation response that arrives when hasEdit is true calls no
\* onChange and, in the mounted component, opens the confirm dialog; one that
\* arrives when hasEdit is false is, in the mounted component, passed to
\* onChange at once with no dialog.  With hasEdit true, template data reaches
\* onChange only by a pick in the dialog.
C1_ConfirmBeforeTemplate ==
  [][/\ \A h \in HandlerIds : \A res \in SimulateResults(handlers[h].req) :
          (SimulateReturn(h, res) /\ res.ok) =>
            /\ hasEdit => (onChangeCall' = NoCall /\ value' = value)
            /\ ~destroyRef =>
                 IF hasEdit
                 THEN handlers'[h].pc = "dialog"
                 ELSE /\ onChangeCall' = [by |-> "onIndexInputBlur",
                                          value |-> TemplateValue(res.response)]
                      /\ handlers'[h].pc = "idle"
     /\ (hasEdit /\ onChangeCall'.by = "onIndexInputBlur") =>
          \E h \in HandlerIds : DialogOverwrite(h) \/ DialogMerge(h)]_vars

\* An ok response met unsaved edits: the dialog is open and onChange was not called.
C1_Witness ==
  /\ \E h \in HandlerIds : handlers[h].pc = "dialog"
  /\ hasEdit
  /\ onChangeCall = NoCall
  /\ ~destroyRef

\* The template response as the form holds it: mappings.properties as an array,
\* everything else as answered.
ExactTemplate(response) ==
  IF Has(response, "mappings") /\ Has(response.mappings, "properties")
  THEN With(response, "mappings",
            With(response.mappings, "properties",
                 transformObjectToArray(response.mappings.properties)))
  ELSE response

\* C2 as stated: "Merge" keeps the setting the user has edited, gives the keys
\* only the template has the template's value and keeps the typed index name;
\* "Overwrite" yields exactly the template response, mappings.properties as an
\* array.
C2_MergeAndOverwrite ==
  [][\A h \in HandlerIds :
       /\ DialogMerge(h) =>
            /\ value'.index = Get(value, "index", "")
            /\ (Has(value, "settings")
                  /\ Get(value.settings, "index.number_of_shards", 0) = 2) =>
                 value'.settings["index.number_of_shards"] = 2
            /\ \A k \in DOMAIN handlers[h].result.settings \ DOMAIN Get(value, "settings", EmptyJson) :
                 value'.settings[k] = handlers[h].result.settings[k]
       /\ DialogOverwrite(h) => value' = ExactTemplate(handlers[h].result)]_vars

\* C3 as stated: at most one onSimulateIndexTemplate call is in flight.
C3_SingleInFlight ==
  Cardinality({h \in HandlerIds : handlers[h].pc = "awaiting"}) <= 1

\* C10: a simulation response that is not ok calls no onChange, leaves the form
\* value and hasEdit as they are and, in the mounted component, sets
\* isMatchingTemplate to false.
C10_FailedSimulation ==
  [][\A h \in HandlerIds : \A res \in SimulateResults(handlers[h].req) :
       (SimulateReturn(h, res) /\ ~res.ok) =>
         /\ onChangeCall' = NoCall
         /\ value' = value
         /\ hasEdit' = hasEdit
         /\ ~destroyRef => isMatchingTemplate' = FALSE]_vars

\* A template had been applied (the mapping fields are its own) and edited, then
\* a response that was not ok arrived: the banner is off, the edits flag is kept.
C10_Witness ==
  /\ ~isMatchingTemplate
  /\ hasEdit
  /\ Has(value, "mappings")
  /\ Has(value.mappings, "properties")
  /\ Len(value.mappings.properties) = 1
  /\ onChangeCall = NoCall
  /\ ~destroyRef

\* C11: choosing "do not import" in the dialog that onImportSettings shows when
\* hasEdit is true calls neither onGetIndexDetail nor onChange, shows no success
\* toast and leaves hasEdit as it is; the execution never goes on afterwards:
\* onGetIndexDetail is called only by "Overwrite" or by an import started with
\* hasEdit false, and the import's onChange only follows such a call.
C11_DeclinedImport ==
  [][/\ ImportDecline =>
          /\ importCalls' = {}
          /\ onChangeCall' = NoCall
          /\ value' = value
          /\ hasEdit' = hasEdit
          /\ importer'.pc = "declined"
     /\ (importer.pc # "dialog" /\ importer'.pc = "dialog") => hasEdit
     /\ (importer.pc = "declined" /\ importer' # importer) =>
          \E index \in SourceIndices : onImportSettings(index)
     /\ "onGetIndexDetail" \in importCalls' =>
          \/ ImportOverwrite
          \/ ~hasEdit /\ \E index \in SourceIndices : onImportSettings(index)
     /\ (onChangeCall'.by = "onImportSettings" \/ "addSuccess" \in importCalls') =>
          importer.pc = "awaiting"]_vars

\* The user had unsaved edits, asked for an import and chose "do not import".
C11_Witness ==
  /\ importer.pc = "declined"
  /\ hasEdit
  /\ onChangeCall = NoCall
  /\ importCalls = {}

====
